---- MODULE Spec2Model ----
(***************************************************************************)
(* Model of the Cast V2 Connection (package cast): Start, connect, Send,   *)
(* SendAndWait, the background receive loop and handleMessage, with the    *)
(* package-level requestID counter and the resultChanMap correlation       *)
(* table.  Every access to shared memory (the counter, the table, a        *)
(* channel, the socket) is one step, so goroutines interleave exactly      *)
(* where the Go code lets them.                                            *)
(***************************************************************************)
EXTENDS Integers, Sequences, FiniteSets, TLC

\* ------------------------------------------------------------------ bounds
MaxSends == 2        \* Send executions (caller calls and PONG replies) in a run
MaxSeqSends == 3     \* the same, in the runs of a single client goroutine

\* ----------------------------------------------------------- program sets
Callers == {"A", "B"}                 \* goroutines calling Send / SendAndWait
Starters == {"S1", "S2"}              \* goroutines calling Start, once each
MainStarters == {"S1"}                \* the Start call of the request/response runs
Loops == {"L1", "L2"}                 \* receiveLoop goroutines, one per spawning Start
LoopOf(s) == IF s = "S1" THEN "L1" ELSE "L2"
Threads == Callers \cup Loops         \* goroutines that can run Send
Namespaces == {"heartbeat", "receiver"}
ChanCap == 1                          \* make(chan *pb.CastMessage, 1)

VARIABLES
  requestID,      \* the package-level counter
  resultChanMap,  \* c.resultChanMap: request id -> channel
  chanBuf,        \* channel -> its buffered messages
  connected,      \* c.connected
  conn,           \* c.conn: "nil", "open" or "broken" (reads fail)
  crashed,        \* a goroutine panicked: the process is gone
  wire,           \* chunks written to the socket
  nSends,         \* Send executions started
  lastId,         \* history: the id SetRequestId wrote last, 0 before the first
  nOther,         \* Send executions on another Connection of the process
  answered,       \* chunks on the wire the peer has answered
  pc,             \* Threads -> position in Send / SendAndWait / receiveLoop
  tmp,            \* Threads -> value of requestID loaded by `requestID += 1`
  pid,            \* Threads -> payload.RequestId of the payload being sent
  cid,            \* Threads -> how many Send executions the goroutine has begun
  op,             \* Callers -> "Send" or "SendAndWait"
  ch,             \* Callers -> resultChan of the SendAndWait in progress
  ctxDone,        \* Callers -> ctx.Done() is closed
  res,            \* Callers -> what the SendAndWait in progress returns
  rlmsg,          \* Loops -> the frame being handled
  rlchan,         \* Loops -> resultChan found by the table lookup
  rlprev,         \* history: Loops -> kind of the frame the loop discarded last
  spc,            \* Starters -> position in Start
  sres            \* Starters -> what Start returns: "none" yet, "nil" or "err"

vars == <<requestID, resultChanMap, chanBuf, connected, conn, crashed,
          wire, nSends, lastId, nOther, answered, pc, tmp, pid, cid, op, ch, ctxDone,
          res, rlmsg, rlchan, rlprev, spc, sres>>

connVars == <<connected, conn>>
callVars == <<op, ch, ctxDone, res>>
loopVars == <<rlmsg, rlchan>>
sendVars == <<tmp, pid, cid>>
startVars == <<spc, sres>>

\* ------------------------------------------------------------------ frames
NoMsg == [kind |-> "NONE", src |-> "", dst |-> "", ns |-> "", hasRid |-> FALSE, rid |-> 0]

\* An inbound PING from the device to this sender, on any namespace:
\* {"type":"PING"}, or {"type":"PING","requestId":1}.
PingFrames ==
  {[kind |-> "PING", src |-> "receiver-0", dst |-> "sender-0", ns |-> n,
    hasRid |-> h, rid |-> IF h THEN 1 ELSE 0] : n \in Namespaces, h \in BOOLEAN}

\* An inbound message of another type, with a requestId or without one.
Msg(r) == [kind |-> "MSG", src |-> "receiver-0", dst |-> "sender-0", ns |-> "receiver",
           hasRid |-> TRUE, rid |-> r]
MsgNoId == [kind |-> "MSG", src |-> "receiver-0", dst |-> "sender-0", ns |-> "receiver",
            hasRid |-> FALSE, rid |-> 0]
MsgFrames == {Msg(r) : r \in 1..MaxSeqSends} \cup {MsgNoId}

\* Frames the loop discards before handleMessage does anything:
\* a zero length prefix, and a JSON payload without a "type" key.
DropFrames ==
  {[kind |-> k, src |-> "receiver-0", dst |-> "sender-0", ns |-> "receiver",
    hasRid |-> FALSE, rid |-> 0] : k \in {"EMPTY", "NOTYPE"}}

\* What the loop reads and discards without touching anything, by the line
\* that discards it: a zero length prefix (148), a payload shorter than the
\* declared length (155), bytes that are no CastMessage (166), a payload that
\* is no JSON object (174), a JSON payload without a "type" key (186).
DiscardKinds == {"EMPTY", "SHORT", "BADPROTO", "BADJSON", "NOTYPE"}
\* The kind recorded for a frame of the default case that finds no channel:
\* without a "requestId" key, or with an id that has no entry.
UnmatchedKind(f) == IF f.hasRid THEN "UNMATCHED" ELSE "NOID"
SkipKinds == DiscardKinds \cup {"UNMATCHED", "NOID"}

\* The well-formed frames the loop can read.
InFrames == PingFrames \cup MsgFrames

\* A switch whose PING case never matches: every frame takes the default case.
IsPing_NeverMatches(f) == FALSE

\* handleMessage's switch on the "type" key: the PING case, else the default case.
IsPing(f) == f.kind = "PING"

\* jsonparser.GetInt(payload, "requestId"): 0 with an error when the key is missing.
GetInt(m) == IF m.hasRid THEN m.rid ELSE 0

\* The arguments handleMessage passes to Send for the PONG reply.
PongArgs(m) == [type |-> "PONG", src |-> m.src, dst |-> m.dst, ns |-> m.ns]

\* The arguments of a caller's Send / SendAndWait.
CallerArgs == [type |-> "CMD", src |-> "sender-0", dst |-> "receiver-0", ns |-> "receiver"]

SendArgs(t) == IF t \in Loops THEN PongArgs(rlmsg[t]) ELSE CallerArgs

\* The CastMessage Send builds from the payload and its arguments.
OutFrame(t) ==
  LET a == SendArgs(t) IN
  [type |-> a.type, rid |-> pid[t], src |-> a.src, dst |-> a.dst, ns |-> a.ns]

\* The Send execution a goroutine is in, and the channel its SendAndWait makes.
CallOf(t) == <<t, cid[t]>>
NoChan == <<"none", 0>>

Chunk(k, t) == [k |-> k, call |-> CallOf(t), f |-> OutFrame(t)]

\* ----------------------------------------------------------------- results
ResNone == [k |-> "none", m |-> NoMsg]
ResCtx == [k |-> "ctx", m |-> NoMsg]
ResEnv(m) == [k |-> "env", m |-> m]

\* ---------------------------------------------------------- Go map helpers
EmptyMap == [k \in {} |-> 0]
\* m[key] = val
MapPut(m, key, val) == [k \in DOMAIN m \cup {key} |-> IF k = key THEN val ELSE m[k]]
\* delete(m, key)
MapDelete(m, key) == [k \in DOMAIN m \ {key} |-> m[k]]
\* The channels of buf that the table, a caller or a loop still refers to:
\* a channel nothing refers to is unreachable, and Go's collector frees it.
Reachable(buf, table, held) ==
  [x \in {y \in DOMAIN buf : y \in held \/ \E k \in DOMAIN table : table[k] = y} |-> buf[x]]

\* -------------------------------------------------------------------- Init
Init ==
  /\ requestID = 0
  /\ resultChanMap = EmptyMap
  /\ chanBuf = EmptyMap
  /\ connected = FALSE
  /\ conn = "nil"
  /\ crashed = FALSE
  /\ wire = {}
  /\ nSends = 0
  /\ lastId = 0
  /\ nOther = 0
  /\ answered = {}
  /\ pc = [t \in Threads |-> IF t \in Loops THEN "none" ELSE "idle"]
  /\ tmp = [t \in Threads |-> 0]
  /\ pid = [t \in Threads |-> 0]
  /\ cid = [t \in Threads |-> 0]
  /\ op = [c \in Callers |-> "Send"]
  /\ ch = [c \in Callers |-> NoChan]
  /\ ctxDone = [c \in Callers |-> FALSE]
  /\ res = [c \in Callers |-> ResNone]
  /\ rlmsg = [l \in Loops |-> NoMsg]
  /\ rlchan = [l \in Loops |-> NoChan]
  /\ rlprev = [l \in Loops |-> "NONE"]
  /\ spc = [s \in Starters |-> "idle"]
  /\ sres = [s \in Starters |-> "none"]

\* ------------------------------------------------------------------- Start
\* Start, line 51: `if !c.connected` is false: return nil.
StartNoop(s) ==
  /\ ~crashed
  /\ spc[s] = "idle"
  /\ connected
  /\ spc' = [spc EXCEPT ![s] = "done"]
  /\ sres' = [sres EXCEPT ![s] = "nil"]
  /\ UNCHANGED <<requestID, resultChanMap, chanBuf, connVars, crashed, wire,
                 nSends, lastId, answered, pc, sendVars, callVars, loopVars, rlprev, nOther>>

\* A Start that does not test c.connected.
StartEnter_Unguarded(s) ==
  /\ ~crashed
  /\ spc[s] = "idle"
  /\ spc' = [spc EXCEPT ![s] = "dial"]
  /\ UNCHANGED sres
  /\ UNCHANGED <<requestID, resultChanMap, chanBuf, connVars, crashed, wire,
                 nSends, lastId, answered, pc, sendVars, callVars, loopVars, rlprev, nOther>>

\* Start, lines 51-52: not connected; the deferred spawn is registered.
StartEnter(s) ==
  /\ ~crashed
  /\ spc[s] = "idle"
  /\ ~connected
  /\ spc' = [spc EXCEPT ![s] = "dial"]
  /\ UNCHANGED sres
  /\ UNCHANGED <<requestID, resultChanMap, chanBuf, connVars, crashed, wire,
                 nSends, lastId, answered, pc, sendVars, callVars, loopVars, rlprev, nOther>>

\* connect, lines 72-79: the dial succeeds.
StartDialOk(s) ==
  /\ ~crashed
  /\ spc[s] = "dial"
  /\ conn' = "open"
  /\ connected' = TRUE
  /\ spc' = [spc EXCEPT ![s] = "spawn"]
  /\ sres' = [sres EXCEPT ![s] = "nil"]
  /\ UNCHANGED <<requestID, resultChanMap, chanBuf, crashed, wire,
                 nSends, lastId, answered, pc, sendVars, callVars, loopVars, rlprev, nOther>>

\* connect, lines 72-77: the dial fails; c.conn is assigned the nil result.
StartDialFail(s) ==
  /\ ~crashed
  /\ spc[s] = "dial"
  /\ conn' = "nil"
  /\ UNCHANGED connected
  /\ spc' = [spc EXCEPT ![s] = "spawn"]
  /\ sres' = [sres EXCEPT ![s] = "err"]
  /\ UNCHANGED <<requestID, resultChanMap, chanBuf, crashed, wire,
                 nSends, lastId, answered, pc, sendVars, callVars, loopVars, rlprev, nOther>>

\* Start, line 52: the deferred `go c.receiveLoop()` runs when Start returns,
\* whatever connect returned.
StartSpawn(s) ==
  /\ ~crashed
  /\ spc[s] = "spawn"
  /\ spc' = [spc EXCEPT ![s] = "done"]
  /\ UNCHANGED sres
  /\ pc' = [pc EXCEPT ![LoopOf(s)] = "read"]
  /\ UNCHANGED <<requestID, resultChanMap, chanBuf, connVars, crashed, wire,
                 nSends, lastId, answered, sendVars, callVars, loopVars, rlprev, nOther>>

\* -------------------------------------------------------------------- Send
\* A SendAndWait that ignores Send's error and goes on to register and wait.
AfterSendErr_Ignored(t) == IF t \in Loops THEN "read" ELSE "register"

\* Where a thread goes when its Send returns an error.
AfterSendErr(t) == IF t \in Loops THEN "read" ELSE "idle"
\* Where a thread goes when its Send returns nil.
AfterSendOk(t) ==
  IF t \in Loops THEN "read"
  ELSE IF op[t] = "SendAndWait" THEN "register" ELSE "idle"

\* A caller's call returns: its payload, context, channel and result go out of scope.
Return(c) ==
  /\ op' = [op EXCEPT ![c] = "Send"]
  /\ ch' = [ch EXCEPT ![c] = NoChan]
  /\ ctxDone' = [ctxDone EXCEPT ![c] = FALSE]
  /\ res' = [res EXCEPT ![c] = ResNone]

\* Send returns.  In the loop, handleMessage returns too and the frame is
\* forgotten (PongHeader keeps its RequestId).  In a caller, the call is over
\* when `over`: Send was called directly, or SendAndWait returns Send's error.
SendReturns(t, over) ==
  IF t \in Loops
    THEN /\ rlmsg' = [rlmsg EXCEPT ![t] = NoMsg]
         /\ UNCHANGED <<rlchan, pid, callVars>>
    ELSE /\ UNCHANGED loopVars
         /\ IF over
              THEN Return(t) /\ pid' = [pid EXCEPT ![t] = 0]
              ELSE UNCHANGED <<pid, callVars>>

\* A caller calls Send or SendAndWait, with a fresh payload and a fresh
\* context, on a connection that a Start call has returned from with a socket.
\* Nothing is shared before Send's first statement, line 107, so the step goes
\* up to the first half of `requestID += 1`: the load of the counter.
\* A run holds at most `max` Send executions.
BeginCall(c, o, max) ==
  /\ ~crashed
  /\ pc[c] = "idle"
  /\ conn # "nil"
  /\ \E s \in Starters : spc[s] = "done"
  /\ nSends < max
  /\ nSends' = nSends + 1
  /\ cid' = [cid EXCEPT ![c] = @ + 1]
  /\ op' = [op EXCEPT ![c] = o]
  /\ tmp' = [tmp EXCEPT ![c] = requestID]
  /\ pc' = [pc EXCEPT ![c] = "s_store"]
  /\ UNCHANGED <<requestID, resultChanMap, chanBuf, connVars, crashed, wire,
                 lastId, answered, pid, ch, ctxDone, res, loopVars, startVars, rlprev, nOther>>

SendStore_NoIncrement(t) ==
  /\ ~crashed
  /\ pc[t] = "s_store"
  /\ requestID' = tmp[t]
  /\ pc' = [pc EXCEPT ![t] = "s_setid"]
  /\ UNCHANGED <<resultChanMap, chanBuf, connVars, crashed, wire,
                 nSends, lastId, answered, sendVars, callVars, loopVars, startVars, rlprev, nOther>>

\* Send, line 107, second half of `requestID += 1`: store the loaded value plus one.
SendStore(t) ==
  /\ ~crashed
  /\ pc[t] = "s_store"
  /\ requestID' = tmp[t] + 1
  /\ pc' = [pc EXCEPT ![t] = "s_setid"]
  /\ UNCHANGED <<resultChanMap, chanBuf, connVars, crashed, wire,
                 nSends, lastId, answered, sendVars, callVars, loopVars, startVars, rlprev, nOther>>

\* The values `requestID` can have as the argument of SetRequestId on line 108:
\* the counter is read without synchronisation, so the build may reload it or
\* reuse the value it just stored.
SetIdValues(t) == {requestID, tmp[t] + 1}

\* Send, line 108: payload.SetRequestId(requestID).
SendSetId(t) ==
  /\ ~crashed
  /\ pc[t] = "s_setid"
  /\ \E v \in SetIdValues(t) : pid' = [pid EXCEPT ![t] = v] /\ lastId' = v
  /\ tmp' = [tmp EXCEPT ![t] = 0]
  /\ pc' = [pc EXCEPT ![t] = "s_len"]
  /\ UNCHANGED <<requestID, resultChanMap, chanBuf, connVars, crashed, wire,
                 nSends, answered, cid, callVars, loopVars, startVars, rlprev, nOther>>

\* Send, lines 110-133: json.Marshal, proto.Marshal or the write of the length
\* prefix fails; Send returns the error.
SendLenFail(t) ==
  /\ ~crashed
  /\ pc[t] = "s_len"
  /\ pc' = [pc EXCEPT ![t] = AfterSendErr(t)]
  /\ SendReturns(t, TRUE)
  /\ UNCHANGED <<requestID, resultChanMap, chanBuf, connVars, crashed, wire,
                 nSends, lastId, answered, tmp, cid, startVars, rlprev, nOther>>

\* Send, line 131: the 4-byte length prefix is written.
SendLen(t) ==
  /\ ~crashed
  /\ pc[t] = "s_len"
  /\ wire' = wire \cup {Chunk("len", t)}
  /\ pc' = [pc EXCEPT ![t] = "s_data"]
  /\ UNCHANGED <<requestID, resultChanMap, chanBuf, connVars, crashed,
                 nSends, lastId, answered, sendVars, callVars, loopVars, startVars, rlprev, nOther>>

\* Send, lines 134-136: the write of the envelope bytes fails.
SendDataFail(t) ==
  /\ ~crashed
  /\ pc[t] = "s_data"
  /\ pc' = [pc EXCEPT ![t] = AfterSendErr(t)]
  /\ SendReturns(t, TRUE)
  /\ UNCHANGED <<requestID, resultChanMap, chanBuf, connVars, crashed, wire,
                 nSends, lastId, answered, tmp, cid, startVars, rlprev, nOther>>

\* Send, lines 134-138: the envelope bytes are written; Send returns nil.
SendData(t) ==
  /\ ~crashed
  /\ pc[t] = "s_data"
  /\ wire' = wire \cup {Chunk("data", t)}
  /\ pc' = [pc EXCEPT ![t] = AfterSendOk(t)]
  /\ SendReturns(t, op[t] = "Send")
  /\ UNCHANGED <<requestID, resultChanMap, chanBuf, connVars, crashed,
                 nSends, lastId, answered, tmp, cid, startVars, rlprev, nOther>>

\* ------------------------------------------------------------- SendAndWait
\* SendAndWait, lines 90-91: make the channel and store it under the value the
\* global counter has now.
Register(c) ==
  /\ ~crashed
  /\ pc[c] = "register"
  /\ ch' = [ch EXCEPT ![c] = CallOf(c)]
  /\ resultChanMap' = MapPut(resultChanMap, requestID, CallOf(c))
  /\ chanBuf' = Reachable(MapPut(chanBuf, CallOf(c), << >>), resultChanMap',
                          {ch'[d] : d \in Callers} \cup {rlchan[l] : l \in Loops})
  /\ pc' = [pc EXCEPT ![c] = "wait"]
  /\ UNCHANGED <<requestID, connVars, crashed, wire, nSends, lastId, answered,
                 sendVars, op, ctxDone, res, loopVars, startVars, rlprev, nOther>>

\* The context of a SendAndWait call is cancelled or times out.  Only the
\* select reads the context, so a cancellation that comes earlier in the call
\* is the same as one that comes when the call reaches the select.
Cancel(c) ==
  /\ ~crashed
  /\ pc[c] = "wait"
  /\ ~ctxDone[c]
  /\ ctxDone' = [ctxDone EXCEPT ![c] = TRUE]
  /\ UNCHANGED <<requestID, resultChanMap, chanBuf, connVars, crashed, wire,
                 nSends, lastId, answered, pc, sendVars, op, ch, res, loopVars, startVars, rlprev, nOther>>

\* A select without the ctx.Done() case.
CtxReady_Missing(c) == FALSE

\* The cases of the select on lines 96-101 that are ready.
CtxReady(c) == ctxDone[c]
ChanReady(c) == chanBuf[ch[c]] # << >>

\* SendAndWait, lines 97-98: ctx.Done() is ready; return ctx.Err().
SelectCtx(c) ==
  /\ ~crashed
  /\ pc[c] = "wait"
  /\ CtxReady(c)
  /\ res' = [res EXCEPT ![c] = ResCtx]
  /\ pc' = [pc EXCEPT ![c] = "cleanup"]
  /\ UNCHANGED <<requestID, resultChanMap, chanBuf, connVars, crashed, wire,
                 nSends, lastId, answered, sendVars, op, ch, ctxDone, loopVars, startVars, rlprev, nOther>>

\* SendAndWait, lines 99-100: a message is ready on resultChan; return it.
SelectResult(c) ==
  /\ ~crashed
  /\ pc[c] = "wait"
  /\ ChanReady(c)
  /\ res' = [res EXCEPT ![c] = ResEnv(Head(chanBuf[ch[c]]))]
  /\ chanBuf' = [chanBuf EXCEPT ![ch[c]] = Tail(@)]
  /\ pc' = [pc EXCEPT ![c] = "cleanup"]
  /\ UNCHANGED <<requestID, resultChanMap, connVars, crashed, wire,
                 nSends, lastId, answered, sendVars, op, ch, ctxDone, loopVars, startVars, rlprev, nOther>>

\* SendAndWait, lines 92-94: the deferred delete runs with the value the global
\* counter has at return; then the call returns.
Cleanup(c) ==
  /\ ~crashed
  /\ pc[c] = "cleanup"
  /\ resultChanMap' = MapDelete(resultChanMap, requestID)
  /\ Return(c)
  /\ pid' = [pid EXCEPT ![c] = 0]
  /\ pc' = [pc EXCEPT ![c] = "idle"]
  /\ chanBuf' = Reachable(chanBuf, resultChanMap',
                          {ch'[d] : d \in Callers} \cup {rlchan[l] : l \in Loops})
  /\ UNCHANGED <<requestID, connVars, crashed, wire, nSends, lastId,
                 answered, tmp, cid, loopVars, startVars, rlprev, nOther>>

\* ------------------------------------------------------------ receiveLoop
\* The loop's socket read returns whatever the device wrote; the frame is
\* chosen when the loop reads it, which is when the program first sees it.

\* receiveLoop, line 144: c.conn is nil (the dial failed): the read panics.
LoopPanic(l) ==
  /\ ~crashed
  /\ pc[l] = "read"
  /\ conn = "nil"
  /\ crashed' = TRUE
  /\ pc' = [pc EXCEPT ![l] = "panic"]
  /\ UNCHANGED <<requestID, resultChanMap, chanBuf, connVars, wire, nSends, lastId,
                 answered, sendVars, callVars, loopVars, startVars, rlprev, nOther>>

\* receiveLoop, lines 144-147: the socket is closed or fails, the read of the
\* length prefix returns an error; break.
LoopExit(l) ==
  /\ ~crashed
  /\ pc[l] = "read"
  /\ conn # "nil"
  /\ conn' = "broken"
  /\ pc' = [pc EXCEPT ![l] = "exited"]
  /\ UNCHANGED <<requestID, resultChanMap, chanBuf, connected, crashed, wire,
                 nSends, lastId, answered, sendVars, callVars, loopVars, startVars, rlprev, nOther>>

\* receiveLoop, lines 148-151, and handleMessage, lines 185-189: a zero length
\* prefix, or a payload without a "type" key: logged, next frame.
LoopReadDrop(l) ==
  /\ ~crashed
  /\ pc[l] = "read"
  /\ conn = "open"
  /\ \E f \in DropFrames : TRUE
  /\ UNCHANGED vars

\* As LoopReadDrop, for every frame the loop reads and drops, and keeping the
\* kind of the dropped frame: receiveLoop, lines 148-177 (continue), and
\* handleMessage, lines 185-189 (return) and 197-203 (no channel under the id;
\* a missing "requestId" is looked up as id 0).
LoopReadSkip(l) ==
  /\ ~crashed
  /\ pc[l] = "read"
  /\ conn = "open"
  /\ \/ \E k \in DiscardKinds : rlprev' = [rlprev EXCEPT ![l] = k]
     \/ \E f \in MsgFrames :
          /\ GetInt(f) \notin DOMAIN resultChanMap
          /\ rlprev' = [rlprev EXCEPT ![l] = UnmatchedKind(f)]
  /\ UNCHANGED <<requestID, resultChanMap, chanBuf, connVars, crashed, wire,
                 nSends, lastId, answered, pc, sendVars, callVars, loopVars,
                 startVars, nOther>>

\* receiveLoop, line 171: an envelope that decodes and has no payload_utf8 (a
\* BINARY payload): message.PayloadUtf8 is nil and `*message.PayloadUtf8`, an
\* argument of c.log, panics.
LoopReadNoPayload(l) ==
  /\ ~crashed
  /\ pc[l] = "read"
  /\ conn = "open"
  /\ crashed' = TRUE
  /\ pc' = [pc EXCEPT ![l] = "panic"]
  /\ UNCHANGED <<requestID, resultChanMap, chanBuf, connVars, wire, nSends,
                 lastId, answered, sendVars, callVars, loopVars, rlprev,
                 startVars, nOther>>

\* receiveLoop, lines 144-179, and handleMessage, lines 185-193: a PING frame
\* is read; handleMessage calls Send with the shared PongHeader, and Send
\* loads the counter (line 107, first half of `requestID += 1`).
LoopReadPing(l, max) ==
  /\ ~crashed
  /\ pc[l] = "read"
  /\ conn = "open"
  /\ nSends < max
  /\ \E f \in InFrames : IsPing(f) /\ rlmsg' = [rlmsg EXCEPT ![l] = f]
  /\ nSends' = nSends + 1
  /\ cid' = [cid EXCEPT ![l] = @ + 1]
  /\ tmp' = [tmp EXCEPT ![l] = requestID]
  /\ pc' = [pc EXCEPT ![l] = "s_store"]
  /\ UNCHANGED <<requestID, resultChanMap, chanBuf, connVars, crashed, wire,
                 lastId, answered, pid, callVars, rlchan, startVars, rlprev, nOther>>

\* The loop's step from the socket read to the table lookup, for a frame f that
\* is not a PING (receiveLoop, lines 144-179, and handleMessage, lines 185-201).
\* The frame is whatever the device wrote, so the step is taken when the
\* lookup is: with a channel under the frame's request id, the loop goes on to
\* deliver; with none, the frame is dropped and the loop reads again.
LookUp(l, f) ==
  LET id == GetInt(f) IN
  /\ ~IsPing(f)
  /\ IF id \in DOMAIN resultChanMap
       THEN /\ rlmsg' = [rlmsg EXCEPT ![l] = f]
            /\ rlchan' = [rlchan EXCEPT ![l] = resultChanMap[id]]
            /\ pc' = [pc EXCEPT ![l] = "deliver"]
       ELSE UNCHANGED <<rlmsg, rlchan, pc>>

\* A frame of another type is read, with any request id or none.
LoopReadMsg(l) ==
  /\ ~crashed
  /\ pc[l] = "read"
  /\ conn = "open"
  /\ \E f \in InFrames : LookUp(l, f)
  /\ UNCHANGED <<requestID, resultChanMap, chanBuf, connVars, crashed, wire, nSends, lastId,
                 answered, sendVars, callVars, startVars, rlprev, nOther>>

\* The command frames on the wire that the device has not answered yet.
Unanswered == {w \in wire : w.k = "data" /\ w.f.type = "CMD" /\ w \notin answered}

\* As LoopReadMsg, with a device that answers every command frame it received,
\* once, in any order, and sends nothing else.
LoopReadAnswer(l) ==
  /\ ~crashed
  /\ pc[l] = "read"
  /\ conn = "open"
  /\ \E w \in Unanswered :
       /\ LookUp(l, Msg(w.f.rid))
       /\ answered' = answered \cup {w}
  /\ UNCHANGED <<requestID, resultChanMap, chanBuf, connVars, crashed, wire, nSends, lastId,
                 sendVars, callVars, startVars, rlprev, nOther>>

\* handleMessage, line 202: `resultChan <- message` proceeds when the buffer
\* has room, and blocks the loop otherwise.
LoopDeliver(l) ==
  /\ ~crashed
  /\ pc[l] = "deliver"
  /\ Len(chanBuf[rlchan[l]]) < ChanCap
  /\ rlmsg' = [rlmsg EXCEPT ![l] = NoMsg]
  /\ rlchan' = [rlchan EXCEPT ![l] = NoChan]
  /\ chanBuf' = Reachable([chanBuf EXCEPT ![rlchan[l]] = Append(@, rlmsg[l])], resultChanMap,
                          {ch[d] : d \in Callers} \cup {rlchan'[m] : m \in Loops})
  /\ pc' = [pc EXCEPT ![l] = "read"]
  /\ UNCHANGED <<requestID, resultChanMap, connVars, crashed, wire,
                 nSends, lastId, answered, sendVars, callVars, startVars, rlprev, nOther>>

\* ---------------------------------------------------------- specifications
StartStep(s) == StartEnter(s) \/ StartDialOk(s) \/ StartDialFail(s) \/ StartSpawn(s)

SendStep(t) ==
  \/ SendStore(t) \/ SendSetId(t)
  \/ SendLenFail(t) \/ SendLen(t) \/ SendDataFail(t) \/ SendData(t)

WaitStep(c) == Register(c) \/ SelectCtx(c) \/ SelectResult(c) \/ Cleanup(c)

LoopStep(l, max) ==
  \/ LoopPanic(l) \/ LoopExit(l) \/ LoopReadDrop(l) \/ LoopReadPing(l, max)
  \/ LoopReadMsg(l) \/ LoopDeliver(l)

Next ==
  \/ \E s \in MainStarters : StartStep(s)
  \/ \E c \in Callers : \E o \in {"Send", "SendAndWait"} : BeginCall(c, o, MaxSends)
  \/ \E t \in Threads : SendStep(t)
  \/ \E c \in Callers : WaitStep(c) \/ Cancel(c)
  \/ \E l \in Loops : LoopStep(l, MaxSends)

Spec == Init /\ [][Next]_vars

\* A connection that stays up (socket reads and writes succeed), used by
\* SendAndWait callers only, with a device that answers every command frame
\* once and sends nothing else.  Goroutines that can take a step are scheduled;
\* callers need not call, contexts need not be cancelled.
LiveSendStep(t) ==
  SendStore(t) \/ SendSetId(t) \/ SendLen(t) \/ SendData(t)

LiveLoopStep(l) ==
  \/ LoopPanic(l) \/ LoopReadAnswer(l) \/ LoopDeliver(l)

NextLive ==
  \/ \E s \in MainStarters : StartStep(s)
  \/ \E c \in Callers : BeginCall(c, "SendAndWait", MaxSends)
  \/ \E c \in Callers : LiveSendStep(c)
  \/ \E c \in Callers : WaitStep(c) \/ Cancel(c)
  \/ \E l \in Loops : LiveLoopStep(l)

FairLive ==
  /\ \A s \in MainStarters : WF_vars(StartStep(s))
  /\ \A c \in Callers : WF_vars(LiveSendStep(c) \/ WaitStep(c))
  /\ \A s \in MainStarters : WF_vars(LiveLoopStep(LoopOf(s)))

SpecLive == Init /\ [][NextLive]_vars /\ FairLive

\* Send executions that do not overlap in time: a Send (a caller's, directly
\* or from SendAndWait, or the loop's PONG) begins only when no goroutine is
\* inside Send.  Everything else interleaves as in Spec.
SendPcs == {"s_store", "s_setid", "s_len", "s_data"}
NoSendInProgress == \A t \in Threads : pc[t] \notin SendPcs

NextSeq ==
  \/ \E s \in MainStarters : StartStep(s)
  \/ \E c \in Callers : \E o \in {"Send", "SendAndWait"} :
       NoSendInProgress /\ BeginCall(c, o, MaxSeqSends)
  \/ \E t \in Threads : SendStep(t)
  \/ \E c \in Callers : WaitStep(c) \/ Cancel(c)
  \/ \E l \in Loops :
       \/ LoopPanic(l) \/ LoopExit(l) \/ LoopReadDrop(l)
       \/ NoSendInProgress /\ LoopReadPing(l, MaxSeqSends)
       \/ LoopReadMsg(l) \/ LoopDeliver(l)

SpecSeq == Init /\ [][NextSeq]_vars

\* The lifecycle of one Connection: two goroutines call Start once each, at any
\* time (together on the idle connection, one after the other, after a failed
\* dial, after the loop has ended); one client goroutine sends; every loop
\* that was spawned runs.
MaxStartSends == 1   \* Send executions in a lifecycle run

StartCall(s) == StartNoop(s) \/ StartStep(s)

NextStart ==
  \/ \E s \in Starters : StartCall(s)
  \/ \E o \in {"Send", "SendAndWait"} : BeginCall("A", o, MaxStartSends)
  \/ \E t \in Threads : SendStep(t)
  \/ WaitStep("A") \/ Cancel("A")
  \/ \E l \in Loops : LoopStep(l, MaxStartSends)

SpecStart == Init /\ [][NextStart]_vars

\* The receive loop with every kind of inbound frame, next to one SendAndWait
\* caller; socket writes succeed, socket reads may fail.  The goroutines that
\* can take a step are scheduled.
MaxLoopSends == 2    \* Send executions in a receive-loop run

NextLoop ==
  \/ \E s \in MainStarters : StartStep(s)
  \/ BeginCall("A", "SendAndWait", MaxLoopSends)
  \/ \E t \in Threads : LiveSendStep(t)
  \/ WaitStep("A") \/ Cancel("A")
  \/ \E l \in Loops :
       \/ LoopPanic(l) \/ LoopExit(l) \/ LoopReadSkip(l) \/ LoopReadNoPayload(l)
       \/ LoopReadPing(l, MaxLoopSends) \/ LoopReadMsg(l) \/ LoopDeliver(l)

FairLoop ==
  /\ \A s \in MainStarters : WF_vars(StartStep(s))
  /\ \A t \in Threads : WF_vars(LiveSendStep(t))

SpecLoop == Init /\ [][NextLoop]_vars /\ FairLoop

\* As Spec, with clients that call SendAndWait only.
NextWait ==
  \/ \E s \in MainStarters : StartStep(s)
  \/ \E c \in Callers : BeginCall(c, "SendAndWait", MaxSends)
  \/ \E t \in Threads : SendStep(t)
  \/ \E c \in Callers : WaitStep(c) \/ Cancel(c)
  \/ \E l \in Loops : LoopStep(l, MaxSends)

SpecWait == Init /\ [][NextWait]_vars

\* Two Connections in one process.  The other Connection has its own socket,
\* table and loop; what it shares with this one is the package-level counter,
\* which each of its Send executions (a caller's, or its loop's PONG)
\* increments on line 107.  This Connection has one client goroutine and a
\* device that sends no PING.
MaxOtherSends == 2   \* Send executions on the other Connection

OtherSend ==
  /\ ~crashed
  /\ nOther < MaxOtherSends
  /\ nOther' = nOther + 1
  /\ requestID' = requestID + 1
  /\ UNCHANGED <<resultChanMap, chanBuf, connVars, crashed, wire, nSends, lastId,
                 answered, pc, sendVars, callVars, loopVars, rlprev, startVars>>

NextTwo ==
  \/ \E s \in MainStarters : StartStep(s)
  \/ \E o \in {"Send", "SendAndWait"} : BeginCall("A", o, MaxSends)
  \/ SendStep("A")
  \/ WaitStep("A") \/ Cancel("A")
  \/ \E l \in Loops :
       \/ LoopPanic(l) \/ LoopExit(l) \/ LoopReadDrop(l)
       \/ LoopReadMsg(l) \/ LoopDeliver(l)
  \/ OtherSend

SpecTwo == Init /\ [][NextTwo]_vars

\* ================================================================== claims
Waiting(c) == pc[c] = "wait"
Returning(c) == pc[c] = "cleanup"
DataChunks == {w \in wire : w.k = "data"}

\* C1: for every SendAndWait call, the slot for the request id assigned to the
\* call is in the correlation table before the frame carrying that id is
\* written to the socket: whenever bytes of the call's frame are on the wire
\* and the call has not returned, the table has an entry under the call's id.
C1_SlotBeforeTransmit ==
  \A c \in Callers :
    (op[c] = "SendAndWait" /\ \E w \in wire : w.call = CallOf(c))
      => pid[c] \in DOMAIN resultChanMap

\* C2: whenever a SendAndWait call returns an envelope, the requestId of the
\* envelope's payload equals the request id Send assigned to the call's payload.
C2_OwnResponse ==
  \A c \in Callers :
    (Returning(c) /\ res[c].k = "env")
      => (res[c].m.hasRid /\ res[c].m.rid = pid[c])

\* C3: after a SendAndWait call has returned, the correlation table contains
\* no entry registered by that call: every entry of the table holds the
\* channel of a call that has not returned yet.
C3_NoResidualEntry ==
  \A k \in DOMAIN resultChanMap :
    \E c \in Callers : pc[c] \in {"wait", "cleanup"} /\ ch[c] = resultChanMap[k]

\* C4: when the receive loop has exited on a failed socket read, the
\* connection is Closed (not connected) and no SendAndWait call is left
\* blocked with nothing to receive and an uncancelled context.
C4_ClosedOnLoopExit ==
  \A l \in Loops :
    pc[l] = "exited" =>
      /\ ~connected
      /\ \A c \in Callers : ~(Waiting(c) /\ ~ctxDone[c] /\ chanBuf[ch[c]] = << >>)

\* C5: when two SendAndWait calls run concurrently, the device answers every
\* request id it receives and no context is cancelled, each call that waits
\* eventually returns the response carrying its own request id.
C5_BothReturnOwnResponse ==
  \/ <>(\E c \in Callers : ctxDone[c])
  \/ \A c \in Callers :
       (Waiting(c) /\ \A d \in Callers : pc[d] # "idle")
         ~> (Returning(c) /\ res[c].k = "env" /\ res[c].m.rid = pid[c])

\* C6: no two outbound frames of the connection carry the same request id.
C6_UniqueIds ==
  \A w1, w2 \in DataChunks : w1.f.rid = w2.f.rid => w1.call = w2.call

\* C7: across Send/SendAndWait calls that do not overlap in time, the request
\* ids written into the payloads are strictly increasing with no repeats,
\* whether or not the calls succeed: each id SetRequestId writes is greater
\* than the one it wrote before.
C7_SequentialIdsIncrease ==
  [][\A t \in Threads :
       (pc[t] = "s_setid" /\ pc'[t] = "s_len") => pid'[t] > lastId]_vars

\* Three calls one after another, the first two failed before anything was
\* written to the socket, the third has its id.
C7_Witness ==
  /\ lastId = MaxSeqSends /\ wire = {}
  /\ \E t \in Threads : pc[t] = "s_len" /\ pid[t] = MaxSeqSends

\* C8: a SendAndWait call whose context is cancelled while no response has
\* been delivered to its slot eventually returns, with the context's error;
\* it returns an envelope only if the loop delivered one to its slot, and then
\* that envelope.
C8_CancelReturnsCtxErr ==
  /\ \A c \in Callers : (Waiting(c) /\ ctxDone[c]) ~> Returning(c)
  /\ [][\A c \in Callers :
          (Waiting(c) /\ Returning(c)') =>
             /\ chanBuf[ch[c]] = << >> => (ctxDone[c] /\ res'[c] = ResCtx)
             /\ res'[c] = ResCtx => ctxDone[c]
             /\ res'[c] # ResCtx =>
                  (chanBuf[ch[c]] # << >> /\ res'[c] = ResEnv(Head(chanBuf[ch[c]])))]_vars

C8_Witness ==
  \E c \in Callers : Returning(c) /\ res[c] = ResCtx /\ chanBuf[ch[c]] = << >>

\* C9: the PONG frame the receive loop sends for a PING it processed has the
\* PING's destination id as its source id, the PING's source id as its
\* destination id, and the PING's namespace.
C9_PongSwapsEndpoints ==
  [][\A l \in Loops :
       (rlmsg[l].kind = "PING" /\ pc[l] = "s_data" /\ pc'[l] = "read" /\ wire' # wire) =>
          \E w \in wire' \ wire :
            /\ w.k = "data" /\ w.f.type = "PONG"
            /\ w.f.src = rlmsg[l].dst /\ w.f.dst = rlmsg[l].src
            /\ w.f.ns = rlmsg[l].ns]_vars

\* C10: handling a PING frame has no effect on pending requests: no step of
\* the loop that reads or answers a PING adds or removes a table entry or puts
\* anything on a channel, and every caller is where it was, on the same channel.
C10_PingLeavesPendingAlone ==
  [][\A l \in Loops :
       ((rlmsg[l].kind = "PING" \/ rlmsg'[l].kind = "PING") /\ pc'[l] # pc[l]) =>
          /\ resultChanMap' = resultChanMap
          /\ chanBuf' = chanBuf
          /\ \A c \in Callers : pc'[c] = pc[c] /\ ch'[c] = ch[c]]_vars

C10_Witness ==
  \E l \in Loops : \E c \in Callers :
    /\ rlmsg[l].kind = "PING" /\ pc[l] = "s_data"
    /\ Waiting(c) /\ chanBuf[ch[c]] = << >>
    /\ rlmsg[l].hasRid /\ rlmsg[l].rid \in DOMAIN resultChanMap
    /\ resultChanMap[rlmsg[l].rid] = ch[c]

\* The receive loops that exist: spawned, and neither returned nor panicked.
LoopsRunning == {l \in Loops : pc[l] \notin {"none", "exited", "panic"}}
\* Some receive loop has terminated on a failed read and none is left.
LoopTerminated == LoopsRunning = {} /\ \E l \in Loops : pc[l] = "exited"

\* C11: once the receive loop has terminated the connection no longer reports
\* itself as connected, so a Start call made afterwards is not a no-op: it
\* goes on to dial (and from there to spawn a new loop).
C11_StartAfterLoopExitDials ==
  [][\A s \in Starters :
       (LoopTerminated /\ spc[s] = "idle" /\ spc'[s] # "idle") =>
          (~connected /\ spc'[s] = "dial")]_vars

\* C12: a Start call whose dial fails returns an error, leaves the connection
\* as it was (not connected) and starts no receive loop: a loop is spawned only
\* by a Start call whose dial succeeded.
C12_FailedDialSpawnsNoLoop ==
  [][\A s \in Starters :
       /\ (spc[s] = "dial" /\ sres'[s] = "err") => (connected' = connected /\ spc'[s] # "dial")
       /\ (pc[LoopOf(s)] = "none" /\ pc'[LoopOf(s)] # "none") => sres[s] = "nil"]_vars

\* C13: at every moment at most one receive loop exists for the Connection,
\* after any sequence or interleaving of Start calls.
C13_AtMostOneLoop == Cardinality(LoopsRunning) <= 1

\* C14: Start on a connection that is already connected is a no-op: it does
\* not dial, does not replace the socket, spawns no receive loop, leaves the
\* correlation table and the request-id counter unchanged, and returns nil.
C14_StartConnectedNoop ==
  [][\A s \in Starters :
       (connected /\ spc[s] = "idle" /\ spc'[s] # "idle") =>
          /\ spc'[s] = "done" /\ sres'[s] = "nil"
          /\ conn' = conn /\ connected' = connected
          /\ \A l \in Loops : pc'[l] = pc[l]
          /\ resultChanMap' = resultChanMap /\ requestID' = requestID]_vars

\* A Start call has returned nil without spawning its loop, on a connection
\* with a request in flight.
C14_Witness ==
  \E s \in Starters :
    /\ spc[s] = "done" /\ sres[s] = "nil" /\ pc[LoopOf(s)] = "none"
    /\ connected /\ conn = "open"
    /\ requestID > 0 /\ resultChanMap # EmptyMap

\* C15: the receive loop terminates only when a length-prefix read fails (the
\* socket is gone, or was never there); every frame it discards leaves it
\* reading, and a PING that follows a discarded frame is answered with a PONG.
C15_LoopEndsOnlyOnReadFailure ==
  /\ [][\A l \in Loops :
          /\ (pc[l] \notin {"none", "exited", "panic"} /\ pc'[l] \in {"exited", "panic"}) =>
                (pc[l] = "read" /\ (conn = "nil" \/ conn' = "broken"))
          /\ rlprev'[l] # rlprev[l] => (pc[l] = "read" /\ pc'[l] = "read")]_vars
  /\ \A l \in Loops :
       (rlprev[l] \in SkipKinds /\ rlmsg[l].kind = "PING" /\ pc[l] = "s_store")
         ~> (pc[l] = "read" /\ \E w \in DataChunks : w.call = CallOf(l) /\ w.f.type = "PONG")

\* C16: if Send fails inside SendAndWait (a step of Send's encoding and
\* writing part that writes nothing), SendAndWait returns at once: it does not
\* register or wait, the correlation table and the channels are unchanged, and
\* nothing is written for a call whose Send is not at a write.
C16_SendFailureNoSlot ==
  [][/\ \A c \in Callers :
          (op[c] = "SendAndWait" /\ pc[c] \in {"s_len", "s_data"}
             /\ pc'[c] # pc[c] /\ wire' = wire) =>
               /\ pc'[c] = "idle" /\ ch'[c] = NoChan
               /\ resultChanMap' = resultChanMap /\ chanBuf' = chanBuf
     /\ \A w \in wire' \ wire : pc[w.call[1]] \in {"s_len", "s_data"}]_vars

\* A SendAndWait has returned after its length prefix was written and its
\* envelope was not, while the other caller's slot is in the table.
C16_Witness ==
  \E c \in Callers :
    /\ pc[c] = "idle"
    /\ \E w \in wire : w.call = CallOf(c) /\ w.k = "len"
    /\ ~\E w \in DataChunks : w.call = CallOf(c)
    /\ resultChanMap # EmptyMap

\* C17: delivering a response never blocks the receive loop: whenever the
\* loop has found a channel for an inbound frame's request id and is about to
\* send on it, the channel's one-element buffer is empty.
C17_DeliveryNeverBlocks ==
  \A l \in Loops : pc[l] = "deliver" => chanBuf[rlchan[l]] = << >>

\* The request ids of the command frames sent by calls that have returned, and
\* of the calls in progress.
CallReturned(w) ==
  /\ w.call[1] \in Callers
  /\ (w.call[2] < cid[w.call[1]] \/ pc[w.call[1]] = "idle")
ReturnedIds == {w.f.rid : w \in {x \in DataChunks : CallReturned(x)}}
LiveIds == {pid[c] : c \in {d \in Callers : pc[d] \notin {"idle", "s_store", "s_setid"}}}

\* C18: a non-PING frame without a usable requestId, or whose requestId has no
\* registered slot, is dropped: nothing is delivered, the table and the counter
\* are unchanged, the loop reads on; and a response that arrives after its
\* SendAndWait has returned is such a frame: the loop never finds a channel
\* for the id of a returned call that no call in progress uses.
C18_UnmatchedFrameDropped ==
  [][\A l \in Loops :
       /\ (rlprev'[l] # rlprev[l] /\ rlprev'[l] \in {"UNMATCHED", "NOID"}) =>
             /\ pc' = pc /\ ~crashed'
             /\ chanBuf' = chanBuf /\ resultChanMap' = resultChanMap
             /\ requestID' = requestID
       /\ (pc[l] = "read" /\ pc'[l] = "deliver") =>
             rlmsg'[l].rid \notin ReturnedIds \ LiveIds]_vars

\* The length prefixes on the socket whose Send has still to write its
\* envelope: whatever is written next comes right after them in the stream.
OpenPrefixes ==
  {w \in wire : w.k = "len" /\ w.call = CallOf(w.call[1]) /\ pc[w.call[1]] = "s_data"}

\* C19: the bytes written to the socket are a sequence of whole frames: a
\* length prefix is followed by the envelope of the same Send with nothing in
\* between, so no prefix is written while another Send's prefix still waits
\* for its envelope.
C19_WholeFrames == Cardinality(OpenPrefixes) <= 1

\* C20: request-id assignment and correlation of a Connection do not depend
\* on any other Connection.  With one client goroutine and no PING, this
\* Connection alone numbers its Send executions 1, 2, ..., registers a
\* SendAndWait under the id Send gave it and has an empty table between
\* calls; so it does whatever the other Connection sends.
C20_IndependentOfOtherConnection ==
  /\ \A w \in wire : w.f.rid = w.call[2]
  /\ \A c \in Callers :
       pc[c] \in {"wait", "cleanup"} =>
         (pid[c] \in DOMAIN resultChanMap /\ resultChanMap[pid[c]] = ch[c])
  /\ (\A c \in Callers : pc[c] = "idle") => resultChanMap = EmptyMap

====
